---- MODULE Spec2Model ----
(***************************************************************************)
(* LaTeXy (hemanth/latexy): the editor's completion source, the document   *)
(* and package model, the preview, the LLM dispatch of the main            *)
(* application script, and the dev server's redirect.                      *)
(*                                                                         *)
(* Text is a sequence of one-character strings; offsets are 0-based as in  *)
(* JavaScript, so the character at offset k of s is s[k + 1].              *)
(***************************************************************************)
EXTENDS Integers, Sequences, FiniteSets, TLC

VARIABLES
    files,            \* state.files: filename -> content (history is never read)
    activeFile,       \* state.activeFile
    buffer,           \* editor.state.doc, the CodeMirror document
    originalContent,  \* state.originalContent
    storage,          \* localStorage['texflow-files']: the members of the stored
                      \* object, each name and content as its JSON text
    settings,         \* state.settings (the keys, the Ollama URL, autoCompile)
    savedSettings,    \* localStorage['texflow-settings']
    llmProvider,      \* state.llmProvider
    chatHistory,      \* state.chatHistory
    chatMessages,     \* the bubbles of #chatMessages, in order
    calls,            \* the handleSend/sendMessage invocations and their position
    requests,         \* every fetch() issued, in order
    newFileInput,     \* the number of .new-file-input elements in the document
    packageList,      \* the names renderPackageList last marked installed
    completion,       \* the last call of latexCompletions and its result
    latexjs,          \* whether the module variable latexjs is set
    scripts,          \* the latex.js script elements appended to document.head
    compilations,     \* the compileLatex invocations and their position
    timers,           \* the pending setTimeout callbacks of debounce, by deadline
    latexOutput,      \* what #latexOutput shows
    changes,          \* the document changes the update listener saw, and when
    now,              \* the time in milliseconds
    diffView,         \* the rows renderDiff last wrote to #diffView
    served,           \* the requests the dev-server middleware has handled
    lastOp            \* the last operation: its name, argument and the state before it

vars == <<files, activeFile, buffer, originalContent, storage, settings,
          savedSettings, llmProvider, chatHistory, chatMessages, calls, requests,
          newFileInput, packageList, completion, latexjs, scripts, compilations,
          timers, latexOutput, changes, now, diffView, served, lastOp>>

----------------------------------------------------------------------------
(* Strings *)

NL == "\n"
BS == "\\"
\* the backquote character
BT == "<backquote>"

Lower == {"a","b","c","d","e","f","g","h","i","j","k","l","m",
          "n","o","p","q","r","s","t","u","v","w","x","y","z"}
Upper == {"A","B","C","D","E","F","G","H","I","J","K","L","M",
          "N","O","P","Q","R","S","T","U","V","W","X","Y","Z"}
Digit == {"0","1","2","3","4","5","6","7","8","9"}

\* \w of a JavaScript regular expression
WordChar == Lower \cup Upper \cup Digit \cup {"_"}

\* what String.prototype.trim strips (of the characters used here)
WhiteSpace == {" ", "\t", "\n", "\r"}

\* what . of a regular expression does not match
LineTerminator == {"\n", "\r"}

\* s.slice(a, b) for 0 <= a, b
Slice(s, a, b) == IF a >= b \/ a >= Len(s) THEN <<>>
                  ELSE SubSeq(s, a + 1, IF b > Len(s) THEN Len(s) ELSE b)

\* s.startsWith(pat, i)
StartsWithAt(s, i, pat) ==
    /\ i >= 0
    /\ i + Len(pat) <= Len(s)
    /\ \A k \in 1..Len(pat) : s[i + k] = pat[k]

\* s.includes(pat); also s.match(/pat/) for a pattern without operators
Includes(s, pat) == \E i \in 0..(Len(s) - Len(pat)) : StartsWithAt(s, i, pat)

\* s.lastIndexOf(pat)
LastIndexOf(s, pat) ==
    LET hits == {i \in 0..(Len(s) - Len(pat)) : StartsWithAt(s, i, pat)}
    IN  IF hits = {} THEN -1 ELSE CHOOSE i \in hits : \A j \in hits : j <= i

\* s.indexOf(c, from) for a single character c
IndexOfChar(s, c, from) ==
    LET hits == {i \in from..(Len(s) - 1) : s[i + 1] = c}
    IN  IF hits = {} THEN -1 ELSE CHOOSE i \in hits : \A j \in hits : i <= j

\* s.split(c) for a single character c
RECURSIVE SplitFrom(_, _, _)
SplitFrom(s, c, from) ==
    LET k == IndexOfChar(s, c, from)
    IN  IF k = -1 THEN <<Slice(s, from, Len(s))>>
        ELSE <<Slice(s, from, k)>> \o SplitFrom(s, c, k + 1)

Split(s, c) == SplitFrom(s, c, 0)

\* parts.join(c) for a single character c
RECURSIVE Join(_, _)
Join(parts, c) ==
    IF Len(parts) = 0 THEN <<>>
    ELSE IF Len(parts) = 1 THEN parts[1]
    ELSE parts[1] \o <<c>> \o Join(Tail(parts), c)

\* s.trim()
Trim(s) ==
    LET keep == {i \in 1..Len(s) : s[i] \notin WhiteSpace}
    IN  IF keep = {} THEN <<>>
        ELSE SubSeq(s, CHOOSE i \in keep : \A j \in keep : i <= j,
                       CHOOSE i \in keep : \A j \in keep : j <= i)

\* array.splice(at, 0, x)
Splice(arr, at, x) == SubSeq(arr, 1, at) \o <<x>> \o SubSeq(arr, at + 1, Len(arr))

\* the elements of a sequence
Range(seq) == {seq[i] : i \in 1..Len(seq)}

----------------------------------------------------------------------------
(* LaTeX autocompletion data: the labels of the candidate lists *)

latexCommands ==
    <<"\\documentclass", "\\usepackage", "\\begin", "\\section", "\\subsection",
      "\\subsubsection", "\\section*", "\\paragraph", "\\chapter", "\\textbf",
      "\\textit", "\\underline", "\\emph", "\\texttt", "\\textsc", "\\frac",
      "\\sqrt", "\\sqrt[n]", "\\sum", "\\int", "\\lim", "\\prod", "\\alpha",
      "\\beta", "\\gamma", "\\delta", "\\epsilon", "\\theta", "\\lambda", "\\mu",
      "\\pi", "\\sigma", "\\omega", "\\Gamma", "\\Delta", "\\Sigma", "\\Omega",
      "\\infty", "\\partial", "\\nabla", "\\times", "\\cdot", "\\leq", "\\geq",
      "\\neq", "\\approx", "\\equiv", "\\rightarrow", "\\leftarrow",
      "\\Rightarrow", "\\Leftarrow", "\\forall", "\\exists", "\\in", "\\subset",
      "\\cup", "\\cap", "\\label", "\\ref", "\\cite", "\\footnote",
      "\\includegraphics", "\\caption">>

tableSnippets == <<"table3", "table2", "tablefloat", "tablebooktabs">>

environmentSnippets ==
    <<"itemize", "enumerate", "equation", "align", "figure", "abstract",
      "center", "verbatim", "quote", "matrix", "bmatrix", "cases">>

packageCompletions ==
    <<"amsmath", "amssymb", "graphicx", "hyperref", "geometry", "booktabs",
      "tikz", "xcolor", "listings", "algorithm2e", "biblatex", "fontspec",
      "microtype", "siunitx", "cleveref">>

----------------------------------------------------------------------------
(* The completion source *)

\* state.doc.lineAt(pos): the line holding offset pos
LineAt(doc, pos) ==
    LET breaks == {i \in 0..(pos - 1) : doc[i + 1] = NL}
        from   == IF breaks = {} THEN 0
                  ELSE 1 + CHOOSE i \in breaks : \A j \in breaks : j <= i
        next   == IndexOfChar(doc, NL, pos)
        to     == IF next = -1 THEN Len(doc) ELSE next
    IN  [from |-> from, to |-> to, text |-> Slice(doc, from, to)]

\* the same without the backslash (a mutation of the token pattern)
TokenRegexAt_NoBackslash(str, i) ==
    \A k \in (i + 1)..Len(str) : str[k] \in WordChar \cup {"@"}

\* /\\?[\w@]*$/ tried at offset i of str: an optional backslash, then word or @
\* characters up to the end (the second disjunct is the regex giving the
\* backslash back)
TokenRegexAt(str, i) ==
    \/ /\ i < Len(str)
       /\ str[i + 1] = BS
       /\ \A k \in (i + 2)..Len(str) : str[k] \in WordChar \cup {"@"}
    \/ \A k \in (i + 1)..Len(str) : str[k] \in WordChar \cup {"@"}

\* context.matchBefore(/\\?[\w@]*/): String.search of the pattern anchored at the
\* end over the line's text before the cursor, i.e. its leftmost match (lines
\* are shorter than the 250 characters matchBefore looks back)
matchBefore(doc, pos) ==
    LET line  == LineAt(doc, pos)
        str   == Slice(line.text, 0, pos - line.from)
        hits  == {i \in 0..Len(str) : TokenRegexAt(str, i)}
        found == IF hits = {} THEN -1 ELSE CHOOSE i \in hits : \A j \in hits : i <= j
    IN  IF found < 0 THEN [null |-> TRUE, from |-> -1, to |-> -1, text |-> <<>>]
        ELSE [null |-> FALSE, from |-> line.from + found, to |-> pos,
              text |-> Slice(str, found, Len(str))]

\* the whole line (a mutation of BeforeCursor that forgets the slice)
BeforeCursor_WholeLine(doc, pos) == LineAt(doc, pos).text

\* beforeCursor: line.text.slice(0, context.pos - line.from)
BeforeCursor(doc, pos) ==
    LET line == LineAt(doc, pos) IN Slice(line.text, 0, pos - line.from)

\* beforeCursor.match(/\\usepackage\{[\w,]*$/)
PackagePatternMatches(str) ==
    \E i \in 0..Len(str) :
        /\ StartsWithAt(str, i, <<"\\", "u", "s", "e", "p", "a", "c", "k", "a", "g", "e", "{">>)
        /\ \A k \in (i + 13)..Len(str) : str[k] \in WordChar \cup {","}

NullCompletion == [null |-> TRUE, from |-> -1, options |-> <<>>, validFor |-> "none"]

latexCompletions(doc, pos, explicit) ==
    LET word == matchBefore(doc, pos)
    IN  IF word.null \/ (word.from = word.to /\ ~explicit) THEN NullCompletion
        ELSE IF PackagePatternMatches(BeforeCursor(doc, pos))
        THEN [null |-> FALSE, from |-> word.from, options |-> packageCompletions,
              validFor |-> "^[\\w]*$"]
        ELSE [null |-> FALSE, from |-> word.from,
              options |-> latexCommands \o tableSnippets \o environmentSnippets,
              validFor |-> "^\\\\?[\\w@]*$"]

----------------------------------------------------------------------------
(* The document model.  The operations below are functions of the record
   st = [files, activeFile, buffer, originalContent, storage, newFileInput,
   packageList, latexjs, scripts, compilations, timers, latexOutput, changes]
   extended by what they read and never write (now, autoCompile);
   the actions further down apply them to the variables. *)

MainTex == <<"m", "a", "i", "n", ".", "t", "e", "x">>

QT == "\""

\* the characters of the documents that JSON.stringify writes as an escape
\* (of the control characters only the newline occurs in them)
NeedsEscape == {QT, BS, NL}

\* the inside of JSON.stringify(s) for a string s, from offset i on
RECURSIVE EscapeFrom(_, _)
EscapeFrom(s, i) ==
    LET hits == {k \in i..(Len(s) - 1) : s[k + 1] \in NeedsEscape}
        k    == CHOOSE x \in hits : \A y \in hits : x <= y
    IN  IF hits = {} THEN Slice(s, i, Len(s))
        ELSE Slice(s, i, k) \o <<BS, IF s[k + 1] = NL THEN "n" ELSE s[k + 1]>>
                            \o EscapeFrom(s, k + 1)

\* JSON.stringify writing the characters as they are (a mutation)
JSONStringify_Raw(s) == <<QT>> \o s \o <<QT>>

\* JSON.stringify(s) for a string s
JSONStringify(s) == <<QT>> \o EscapeFrom(s, 0) \o <<QT>>

\* the string an escaped text stands for, from offset i on
RECURSIVE UnescapeFrom(_, _)
UnescapeFrom(t, i) ==
    LET hits == {k \in i..(Len(t) - 2) : t[k + 1] = BS}
        k    == CHOOSE x \in hits : \A y \in hits : x <= y
    IN  IF hits = {} THEN Slice(t, i, Len(t))
        ELSE Slice(t, i, k) \o <<IF t[k + 2] = "n" THEN NL ELSE t[k + 2]>>
                            \o UnescapeFrom(t, k + 2)

\* JSON.parse(t) for the text t of a string
JSONParse(t) == UnescapeFrom(Slice(t, 1, Len(t) - 1), 0)

\* saveToStorage(): localStorage['texflow-files'] = JSON.stringify(state.files)
saveToStorage(st) ==
    [st EXCEPT !.storage = {[name |-> JSONStringify(f), content |-> JSONStringify(st.files[f])] :
                              f \in DOMAIN st.files}]

\* loadFromStorage(): state.files = JSON.parse(savedFiles)
loadFromStorage(savedFiles) ==
    LET names == {JSONParse(m.name) : m \in savedFiles}
    IN  [f \in names |->
           JSONParse((CHOOSE m \in savedFiles : JSONParse(m.name) = f).content)]

\* loadLatexJs up to its await: with latexjs unset a script element is appended
\* and its load awaited (the number of the script is returned in .awaits);
\* with latexjs set nothing is awaited (.awaits = 0)
loadLatexJs(st) ==
    IF ~st.latexjs
    THEN [st |-> [st EXCEPT !.scripts = Append(@, "loading")],
          awaits |-> Len(st.scripts) + 1]
    ELSE [st |-> st, awaits |-> 0]

\* compileLatex from the point loadLatexJs has returned for compilation c:
\* latex.parse of the content read at the call, and the result (or the error
\* of the catch clause) written to #latexOutput; .finished numbers the
\* compilations in the order they get here
compileLatexRender(st, c) ==
    [st EXCEPT !.compilations[c].pc = "done",
               !.compilations[c].finished =
                   1 + Cardinality({d \in 1..Len(st.compilations) :
                                      st.compilations[d].pc = "done"}),
               !.latexOutput = [kind |-> "output",
                                source |-> st.compilations[c].content,
                                compilation |-> c]]

\* compileLatex(): the content is read, "Compiling..." is shown and loadLatexJs
\* awaited; when it has nothing to wait for, the rest follows in the same task.
\* by and change say what called it (the timer of which change)
compileLatex(st, by, change) ==
    LET c  == Len(st.compilations) + 1
        l  == loadLatexJs(st)
        s1 == [l.st EXCEPT
                 !.compilations = Append(@, [content |-> st.files[st.activeFile],
                                             by |-> by, change |-> change,
                                             started |-> st.now,
                                             pc |-> "awaitLoad", script |-> l.awaits,
                                             finished |-> 0]),
                 !.latexOutput = [kind |-> "compiling", source |-> <<>>,
                                  compilation |-> c]]
    IN  IF l.awaits = 0 THEN compileLatexRender(s1, c) ELSE s1

\* debounce(compileLatex, delay)(): the function returned is new, so its
\* timeoutId is undefined and clearTimeout clears nothing; one timer is set
debounce(st, delay) ==
    [st EXCEPT !.timers = Append(@, [deadline |-> st.now + delay,
                                     change |-> Len(st.changes)])]

\* the editor's updateListener, run for a transaction with docChanged
updateListener(st) ==
    LET s1 == [st EXCEPT !.files = [st.files EXCEPT ![st.activeFile] = st.buffer],
                         !.changes = Append(@, [at |-> st.now,
                                                autoCompile |-> st.autoCompile])]
        s2 == saveToStorage(s1)
    IN  IF st.autoCompile THEN debounce(s2, 500) ELSE s2

\* editor.dispatch({changes: {from, to, insert}}): the buffer is spliced and the
\* update listener runs synchronously; a change that deletes and inserts nothing
\* is the empty change set, for which docChanged is false
dispatch(st, from, to, insert) ==
    IF from = to /\ insert = <<>> THEN st
    ELSE updateListener([st EXCEPT !.buffer =
             Slice(st.buffer, 0, from) \o insert \o Slice(st.buffer, to, Len(st.buffer))])

\* switchToFile with the editor updated before state.activeFile is set (a
\* mutation: the listener then records the new text under the old file)
switchToFile_DispatchFirst(st, filename) ==
    IF filename \notin DOMAIN st.files THEN st
    ELSE LET s1 == dispatch(st, 0, Len(st.buffer), st.files[filename])
             s2 == [s1 EXCEPT !.activeFile = filename]
         IN  compileLatex([s2 EXCEPT !.originalContent = s2.files[filename]],
                          "switchToFile", 0)

\* switchToFile without its first line (a mutation): for a name that is not in
\* state.files, state.activeFile is assigned before state.files[filename].content
\* throws
switchToFile_NoCheck(st, filename) ==
    IF filename \notin DOMAIN st.files THEN [st EXCEPT !.activeFile = filename]
    ELSE LET s1 == [st EXCEPT !.activeFile = filename]
             s2 == dispatch(s1, 0, Len(s1.buffer), s1.files[filename])
         IN  compileLatex([s2 EXCEPT !.originalContent = s2.files[filename]],
                          "switchToFile", 0)

\* switchToFile without the update of state.originalContent (a mutation)
switchToFile_KeepsOriginal(st, filename) ==
    IF filename \notin DOMAIN st.files THEN st
    ELSE LET s1 == [st EXCEPT !.activeFile = filename]
             s2 == dispatch(s1, 0, Len(s1.buffer), s1.files[filename])
         IN  compileLatex(s2, "switchToFile", 0)

switchToFile(st, filename) ==
    IF filename \notin DOMAIN st.files THEN st
    ELSE LET s1 == [st EXCEPT !.activeFile = filename]
             s2 == dispatch(s1, 0, Len(s1.buffer), s1.files[filename])
         IN  compileLatex([s2 EXCEPT !.originalContent = s2.files[filename]],
                          "switchToFile", 0)

\* inputWrapper.remove(): nothing changes when the wrapper is detached already
remove(st, input) ==
    IF input = "detached" THEN st ELSE [st EXCEPT !.newFileInput = @ - 1]

\* createFile without the test for an existing file (a mutation)
createFile_NoExistsCheck(st, value, input) ==
    LET filename == Trim(value)
    IN  IF filename # <<>>
        THEN LET s1 == [st EXCEPT
                         !.files = [f \in DOMAIN st.files \cup {filename} |->
                                      IF f = filename
                                      THEN <<"%", " ">> \o filename \o <<NL, NL>>
                                      ELSE st.files[f]]]
             IN  switchToFile(remove(s1, input), filename)
        ELSE remove(st, input)

\* createFile, the handler of Enter and of blur on the new-file input.  input
\* says whether the input is in the document and, if it is, whether the browser
\* fires blur on it as inputWrapper.remove() detaches it ("blurs") or not
\* ("quiet"); when it does the handler runs a second time at that point, nested.
RECURSIVE createFile(_, _, _)
createFile(st, value, input) ==
    LET filename == Trim(value)
    IN  IF filename # <<>> /\ filename \notin DOMAIN st.files
        THEN LET s1 == [st EXCEPT
                         !.files = [f \in DOMAIN st.files \cup {filename} |->
                                      IF f = filename
                                      THEN <<"%", " ">> \o filename \o <<NL, NL>>
                                      ELSE st.files[f]]]
                 s2 == remove(s1, input)
                 s3 == IF input = "blurs" THEN createFile(s2, value, "detached") ELSE s2
             IN  switchToFile(s3, filename)
        ELSE IF filename = <<>> THEN remove(st, input)
        ELSE st

\* applyCodeToEditor inserting before the first \end{document} (a mutation:
\* indexOf for lastIndexOf)
applyCodeToEditor_FirstEnd(st, code) ==
    LET currentDoc == st.buffer
        hits == {i \in 0..Len(currentDoc) : StartsWithAt(currentDoc, i, <<"\\", "e", "n", "d", "{", "d", "o", "c", "u", "m", "e", "n", "t", "}">>)}
        s1 == IF Includes(code, <<"\\", "d", "o", "c", "u", "m", "e", "n", "t", "c", "l", "a", "s", "s">>)
              THEN dispatch(st, 0, Len(currentDoc), code)
              ELSE IF hits # {}
              THEN LET endDocPos == CHOOSE i \in hits : \A j \in hits : i <= j
                   IN  dispatch(st, endDocPos, endDocPos, code \o <<NL, NL>>)
              ELSE dispatch(st, Len(currentDoc), Len(currentDoc), <<NL, NL>> \o code)
    IN  compileLatex(s1, "applyCodeToEditor", 0)

\* applyCodeToEditor(code)
applyCodeToEditor(st, code) ==
    LET currentDoc == st.buffer
        endDocPos == LastIndexOf(currentDoc, <<"\\", "e", "n", "d", "{", "d", "o", "c", "u", "m", "e", "n", "t", "}">>)
        s1 == IF Includes(code, <<"\\", "d", "o", "c", "u", "m", "e", "n", "t", "c", "l", "a", "s", "s">>)
              THEN dispatch(st, 0, Len(currentDoc), code)
              ELSE IF endDocPos # -1
              THEN dispatch(st, endDocPos, endDocPos, code \o <<NL, NL>>)
              ELSE dispatch(st, Len(currentDoc), Len(currentDoc), <<NL, NL>> \o code)
    IN  compileLatex(s1, "applyCodeToEditor", 0)

\* renderDiff with rows only where both texts have a line (a mutation:
\* Math.min for Math.max)
renderDiff_MinLines(original, modified) ==
    LET originalLines == Split(original, NL)
        modifiedLines == Split(modified, NL)
        minLines == IF Len(originalLines) <= Len(modifiedLines)
                    THEN Len(originalLines) ELSE Len(modifiedLines)
    IN  [i \in 1..minLines |->
           [original |-> originalLines[i], modified |-> modifiedLines[i],
            marked |-> originalLines[i] # modifiedLines[i]]]

\* renderDiff(): one row per index of the longer of the two line lists, marked
\* (removed on the left, added on the right) when the two lines differ
renderDiff(original, modified) ==
    LET originalLines == Split(original, NL)
        modifiedLines == Split(modified, NL)
        maxLines == IF Len(originalLines) >= Len(modifiedLines)
                    THEN Len(originalLines) ELSE Len(modifiedLines)
    IN  [i \in 1..maxLines |->
           LET origLine == IF i <= Len(originalLines) THEN originalLines[i] ELSE <<>>
               modLine  == IF i <= Len(modifiedLines) THEN modifiedLines[i] ELSE <<>>
           IN  [original |-> origLine, modified |-> modLine,
                marked |-> origLine # modLine]]
----------------------------------------------------------------------------
(* Package manager *)

availablePackages ==
    <<<<"a", "m", "s", "m", "a", "t", "h">>, <<"a", "m", "s", "s", "y", "m", "b">>, <<"g", "r", "a", "p", "h", "i", "c", "x">>, <<"h", "y", "p", "e", "r", "r", "e", "f">>, <<"g", "e", "o", "m", "e", "t", "r", "y">>,
      <<"b", "o", "o", "k", "t", "a", "b", "s">>, <<"x", "c", "o", "l", "o", "r">>, <<"l", "i", "s", "t", "i", "n", "g", "s">>, <<"t", "i", "k", "z">>, <<"a", "l", "g", "o", "r", "i", "t", "h", "m", "2", "e">>,
      <<"b", "i", "b", "l", "a", "t", "e", "x">>, <<"f", "o", "n", "t", "s", "p", "e", "c">>, <<"m", "i", "c", "r", "o", "t", "y", "p", "e">>, <<"s", "i", "u", "n", "i", "t", "x">>, <<"c", "l", "e", "v", "e", "r", "e", "f">>,
      <<"e", "n", "u", "m", "i", "t", "e", "m">>, <<"f", "a", "n", "c", "y", "h", "d", "r">>, <<"c", "a", "p", "t", "i", "o", "n">>, <<"s", "u", "b", "c", "a", "p", "t", "i", "o", "n">>, <<"f", "l", "o", "a", "t">>,
      <<"a", "r", "r", "a", "y">>, <<"t", "a", "b", "u", "l", "a", "r", "x">>, <<"m", "u", "l", "t", "i", "r", "o", "w">>, <<"u", "r", "l">>, <<"i", "n", "p", "u", "t", "e", "n", "c">>, <<"b", "a", "b", "e", "l">>,
      <<"n", "a", "t", "b", "i", "b">>, <<"s", "e", "t", "s", "p", "a", "c", "e">>, <<"p", "a", "r", "s", "k", "i", "p">>, <<"l", "i", "p", "s", "u", "m">>>>

UsePackage == <<"\\", "u", "s", "e", "p", "a", "c", "k", "a", "g", "e">>
DocumentClass == <<"\\", "d", "o", "c", "u", "m", "e", "n", "t", "c", "l", "a", "s", "s">>

NoMatch == [ok |-> FALSE, end |-> -1, bodyFrom |-> -1, bodyTo |-> -1]

Min(S) == CHOOSE x \in S : \A y \in S : x <= y

\* /\\usepackage(?:\[.*?\])?\{([^}]+)\}/ tried at offset i of s.  The optional
\* group is tried first and its .*? takes the shortest option text (without a
\* line terminator) after which the rest matches; [^}]+ runs to the first }.
UsepackageRegexAt(s, i) ==
    LET after == i + Len(UsePackage)
        Close(b) == IndexOfChar(s, "}", b)
        BraceOk(k) == k < Len(s) /\ s[k + 1] = "{" /\ Close(k + 1) > k + 1
        optEnds == {e \in (after + 1)..(Len(s) - 1) :
                      /\ s[after + 1] = "["
                      /\ s[e + 1] = "]"
                      /\ \A x \in (after + 1)..(e - 1) : s[x + 1] \notin LineTerminator
                      /\ BraceOk(e + 1)}
        k == IF optEnds # {} THEN Min(optEnds) + 1 ELSE after
    IN  IF ~StartsWithAt(s, i, UsePackage) THEN NoMatch
        ELSE IF optEnds = {} /\ ~BraceOk(after) THEN NoMatch
        ELSE [ok |-> TRUE, end |-> Close(k + 1) + 1,
              bodyFrom |-> k + 1, bodyTo |-> Close(k + 1)]

\* content.match(/.../g): the matched substrings, scanning left to right
RECURSIVE MatchAllFrom(_, _)
MatchAllFrom(s, i) ==
    LET hits == {j \in i..(Len(s) - 1) : UsepackageRegexAt(s, j).ok}
        j    == Min(hits)
        m    == UsepackageRegexAt(s, j)
    IN  IF hits = {} THEN <<>>
        ELSE <<Slice(s, j, m.end)>> \o MatchAllFrom(s, m.end)

\* match.match(/.../): group 1 of the leftmost match in the substring
Group1(match) ==
    LET hits == {i \in 0..Len(match) : UsepackageRegexAt(match, i).ok}
        m    == UsepackageRegexAt(match, Min(hits))
    IN  IF hits = {} THEN [ok |-> FALSE, text |-> <<>>]
        ELSE [ok |-> TRUE, text |-> Slice(match, m.bodyFrom, m.bodyTo)]

\* the same without the trim (a mutation)
TrimAll_NoTrim(pieces) == pieces

\* pieces.forEach(p => packages.push(p.trim()))
TrimAll(pieces) == [i \in 1..Len(pieces) |-> Trim(pieces[i])]

RECURSIVE PushAll(_)
PushAll(matches) ==
    IF Len(matches) = 0 THEN <<>>
    ELSE LET pkgMatch == Group1(matches[1])
         IN  (IF pkgMatch.ok THEN TrimAll(Split(pkgMatch.text, ",")) ELSE <<>>)
             \o PushAll(Tail(matches))

\* getInstalledPackages() over the active file's content
InstalledIn(content) == PushAll(MatchAllFrom(content, 0))

getInstalledPackages(st) ==
    InstalledIn(IF st.activeFile \in DOMAIN st.files THEN st.files[st.activeFile] ELSE <<>>)

\* renderPackageList(): the list is rebuilt from getInstalledPackages()
renderPackageList(st) ==
    [st EXCEPT !.packageList = [rendered |-> TRUE, installed |-> getInstalledPackages(st)]]

\* the loop without the insertIndex === 0 test (a mutation: the line goes after
\* the last \documentclass line)
RECURSIVE InsertIndexLoop_LastDocumentClass(_, _, _)
InsertIndexLoop_LastDocumentClass(lines, i, insertIndex) ==
    IF i >= Len(lines) THEN insertIndex
    ELSE IF Includes(lines[i + 1], UsePackage)
         THEN InsertIndexLoop_LastDocumentClass(lines, i + 1, i + 1)
    ELSE IF Includes(lines[i + 1], DocumentClass)
         THEN InsertIndexLoop_LastDocumentClass(lines, i + 1, i + 1)
    ELSE InsertIndexLoop_LastDocumentClass(lines, i + 1, insertIndex)

\* the for loop of addPackage, from (0-based) line i on
RECURSIVE InsertIndexLoop(_, _, _)
InsertIndexLoop(lines, i, insertIndex) ==
    IF i >= Len(lines) THEN insertIndex
    ELSE IF Includes(lines[i + 1], UsePackage) THEN InsertIndexLoop(lines, i + 1, i + 1)
    ELSE IF Includes(lines[i + 1], DocumentClass) /\ insertIndex = 0
         THEN InsertIndexLoop(lines, i + 1, i + 1)
    ELSE InsertIndexLoop(lines, i + 1, insertIndex)

\* the text addPackage writes
AddedContent(content, pkgName) ==
    LET lines == Split(content, NL)
        insertIndex == InsertIndexLoop(lines, 0, 0)
    IN  Join(Splice(lines, insertIndex, UsePackage \o <<"{">> \o pkgName \o <<"}">>), NL)

addPackage(st, pkgName) ==
    LET newContent == AddedContent(st.files[st.activeFile], pkgName)
        s1 == dispatch(st, 0, Len(st.buffer), newContent)
        s2 == [s1 EXCEPT !.files = [s1.files EXCEPT ![s1.activeFile] = newContent]]
    IN  renderPackageList(compileLatex(saveToStorage(s2), "addPackage", 0))

\* new RegExp(`\\\\usepackage(?:\\[.*?\\])?\\{${pkgName}\\}\\n?`, 'g') tried at
\* offset i: the end of the match, or -1
RemoveRegexAt(s, i, pkgName) ==
    LET after == i + Len(UsePackage)
        arg == <<"{">> \o pkgName \o <<"}">>
        optEnds == {e \in (after + 1)..(Len(s) - 1) :
                      /\ s[after + 1] = "["
                      /\ s[e + 1] = "]"
                      /\ \A x \in (after + 1)..(e - 1) : s[x + 1] \notin LineTerminator
                      /\ StartsWithAt(s, e + 1, arg)}
        k == IF optEnds # {} THEN Min(optEnds) + 1 ELSE after
        e == k + Len(arg)
    IN  IF ~StartsWithAt(s, i, UsePackage) THEN -1
        ELSE IF optEnds = {} /\ ~StartsWithAt(s, after, arg) THEN -1
        ELSE IF e < Len(s) /\ s[e + 1] = NL THEN e + 1 ELSE e

\* content.replace(regex, '')
RECURSIVE RemoveAllFrom(_, _, _)
RemoveAllFrom(s, i, pkgName) ==
    LET hits == {j \in i..(Len(s) - 1) : RemoveRegexAt(s, j, pkgName) # -1}
        j    == Min(hits)
    IN  IF hits = {} THEN Slice(s, i, Len(s))
        ELSE Slice(s, i, j) \o RemoveAllFrom(s, RemoveRegexAt(s, j, pkgName), pkgName)

removePackage(st, pkgName) ==
    LET newContent == RemoveAllFrom(st.files[st.activeFile], 0, pkgName)
        s1 == dispatch(st, 0, Len(st.buffer), newContent)
        s2 == [s1 EXCEPT !.files = [s1.files EXCEPT ![s1.activeFile] = newContent]]
    IN  renderPackageList(compileLatex(saveToStorage(s2), "removePackage", 0))

----------------------------------------------------------------------------
(* Bounds and inputs *)

\* the number of document-changing operations followed from an initial state
MaxOps == 2

\* the number of lines of a stored document of the package manager's runs
MaxInitLines == 2

\* the number of handleSend calls followed
MaxSends == 2

\* the number of handleSend calls followed where every outcome is tried
MaxResponseSends == 1

\* the lines stored documents are made of
LineVocab ==
    { <<"\\", "d", "o", "c", "u", "m", "e", "n", "t", "c", "l", "a", "s", "s", "{", "a", "}">>,
      <<"\\", "u", "s", "e", "p", "a", "c", "k", "a", "g", "e", "{", "u", "r", "l", "}">>,
      <<"\\", "u", "s", "e", "p", "a", "c", "k", "a", "g", "e", "[", "o", "]", "{", "t", "i", "k", "z", "}">>,
      <<"\\", "u", "s", "e", "p", "a", "c", "k", "a", "g", "e", "{", "u", "r", "l", ",", " ", "t", "i", "k", "z", "}">>,
      <<"\\", "u", "s", "e", "p", "a", "c", "k", "a", "g", "e", "{", "x">>,
      <<"x">>,
      <<>> }

\* the sequences of at most n lines of vocab
RECURSIVE LineSeqs(_, _)
LineSeqs(vocab, n) ==
    IF n = 0 THEN {<<>>}
    ELSE LET shorter == LineSeqs(vocab, n - 1)
         IN  shorter \cup {<<l>> \o ls : l \in vocab, ls \in {x \in shorter : Len(x) = n - 1}}

\* stored documents of up to MaxInitLines lines
PackageDocs == {Join(ls, NL) : ls \in LineSeqs(LineVocab, MaxInitLines)}

\* the lines the completion source is asked on
CompletionVocab ==
    { <<"\\", "u", "s", "e", "p", "a", "c", "k", "a", "g", "e", "{">>,
      <<"\\", "u", "s", "e", "p", "a", "c", "k", "a", "g", "e", "{", "a", "m", "s", ",", "g", "r">>,
      <<"\\", "u", "s", "e", "p", "a", "c", "k", "a", "g", "e", "{", "a", ",">>,
      <<"\\", "u", "s", "e", "p", "a", "c", "k", "a", "g", "e", "{", "a", "}", "b">>,
      <<"\\", "u", "s", "e", "p", "a", "c", "k", "a", "g", "e", "[", "o", "]", "{", "a">>,
      <<"\\", "s", "e", "c">>,
      <<"a", "\\", "b", "@", "c", " ", "d">>,
      <<>> }

\* the number of lines of a document the completion source is asked on
MaxCompletionLines == 2

CompletionDocs == {Join(ls, NL) : ls \in LineSeqs(CompletionVocab, MaxCompletionLines)}

\* stored documents of the editor's runs
EditorDocs ==
    { <<>>,
      <<"x">>,
      <<"\\", "d", "o", "c", "u", "m", "e", "n", "t", "c", "l", "a", "s", "s", "{", "a", "r", "t", "i", "c", "l", "e", "}", "\n", "\\", "u", "s", "e", "p", "a", "c", "k", "a", "g", "e", "{", "a", "m", "s", "m", "a", "t", "h", "}", "\n", "\\", "u", "s", "e", "p", "a", "c", "k", "a", "g", "e", "{", "g", "r", "a", "p", "h", "i", "c", "x", "}", "\n", "\n", "\\", "b", "e", "g", "i", "n", "{", "d", "o", "c", "u", "m", "e", "n", "t", "}", "\n", "\n", "\\", "e", "n", "d", "{", "d", "o", "c", "u", "m", "e", "n", "t", "}">>,
      <<"\\", "b", "e", "g", "i", "n", "{", "d", "o", "c", "u", "m", "e", "n", "t", "}", "\n", "x", "\n", "\\", "e", "n", "d", "{", "d", "o", "c", "u", "m", "e", "n", "t", "}", "\n", "\\", "e", "n", "d", "{", "d", "o", "c", "u", "m", "e", "n", "t", "}", "\n">>,
      <<"\\", "u", "s", "e", "p", "a", "c", "k", "a", "g", "e", "{", "u", "r", "l", ",", "t", "i", "k", "z", "}", "\n", "x">> }

\* names typed into the new-file input
FileInputs == { <<>>, <<" ">>, <<"b">>, <<" ", "b", " ">>, <<"m", "a", "i", "n", ".", "t", "e", "x">> }

\* names of file items clicked
FileNames == { MainTex, <<"b">>, <<"c">> }

\* code blocks offered by chat bubbles (each contains a backslash)
Codes == { <<"\\", "d", "o", "c", "u", "m", "e", "n", "t", "c", "l", "a", "s", "s", "{", "a", "}", "\n", "x">>, <<"\\", "a", "l", "p", "h", "a">>, <<"\\", "e", "n", "d", "{", "d", "o", "c", "u", "m", "e", "n", "t", "}">> }

\* text typed
EditInserts == { <<>>, <<"x">>, <<NL>> }

\* text typed where what is stored matters: the characters JSON escapes, and
\* the two characters that read like an escape
StorageInserts == { <<QT>>, <<BS>>, <<NL>>, <<"\\", "n">> }

\* the settings form saved with auto-compile off and on
PreviewForms ==
    { [openaiKey |-> "", anthropicKey |-> "", geminiKey |-> "", autoCompile |-> FALSE],
      [openaiKey |-> "", anthropicKey |-> "", geminiKey |-> "", autoCompile |-> TRUE] }

\* the milliseconds that pass in one step
Delays == {100, 400, 500}

\* packages clicked in the package list
PackageInputs == { <<"u", "r", "l">>, <<"t", "i", "k", "z">>, <<"a", "r", "r", "a", "y">> }

----------------------------------------------------------------------------
(* The document state as a record, and its actions *)

St == [files |-> files, activeFile |-> activeFile, buffer |-> buffer,
       originalContent |-> originalContent, storage |-> storage,
       newFileInput |-> newFileInput, packageList |-> packageList,
       latexjs |-> latexjs, scripts |-> scripts, compilations |-> compilations,
       timers |-> timers, latexOutput |-> latexOutput, changes |-> changes,
       now |-> now, autoCompile |-> settings.autoCompile]

Commit(st) ==
    /\ files' = st.files
    /\ activeFile' = st.activeFile
    /\ buffer' = st.buffer
    /\ originalContent' = st.originalContent
    /\ storage' = st.storage
    /\ newFileInput' = st.newFileInput
    /\ packageList' = st.packageList
    /\ latexjs' = st.latexjs
    /\ scripts' = st.scripts
    /\ compilations' = st.compilations
    /\ timers' = st.timers
    /\ latexOutput' = st.latexOutput
    /\ changes' = st.changes

\* the record of an operation: what ran, on what, and the state it ran in
Op(name, arg, counts) ==
    [op |-> name, arg |-> arg, file |-> activeFile, doc |-> buffer,
     content |-> files[activeFile], files |-> files,
     n |-> IF counts THEN lastOp.n + 1 ELSE lastOp.n]

UnchangedChat == UNCHANGED <<settings, savedSettings, llmProvider, chatHistory,
                             chatMessages, calls, requests>>

\* what only the clock, the diff button and the dev server write
UnchangedRest == UNCHANGED <<now, diffView, served>>

\* the user types or deletes: a transaction replacing [from, to) by insert
TypeEdit(from, to, insert) ==
    /\ lastOp.n < MaxOps
    /\ ~(from = to /\ insert = <<>>)
    /\ Commit(dispatch(St, from, to, insert))
    /\ lastOp' = Op("type", insert, TRUE)
    /\ UNCHANGED completion /\ UnchangedChat /\ UnchangedRest

\* click on "+ Apply to Editor" of a code block
ApplyCode(code) ==
    /\ lastOp.n < MaxOps
    /\ Includes(code, <<BS>>) \/ Includes(code, <<"b", "e", "g", "i", "n", "{">>)
    /\ Commit(applyCodeToEditor(St, code))
    /\ lastOp' = Op("applyCode", code, TRUE)
    /\ UNCHANGED completion /\ UnchangedChat /\ UnchangedRest

\* the packages button, or input in the package search box
RenderPackages ==
    /\ Commit(renderPackageList(St))
    /\ lastOp' = Op("render", <<>>, FALSE)
    /\ UNCHANGED completion /\ UnchangedChat /\ UnchangedRest

\* the Add button of a package the list shows as not installed
AddPackage(pkgName) ==
    /\ lastOp.n < MaxOps
    /\ packageList.rendered
    /\ pkgName \in Range(availablePackages) \ Range(packageList.installed)
    /\ Commit(addPackage(St, pkgName))
    /\ lastOp' = Op("addPackage", pkgName, TRUE)
    /\ UNCHANGED completion /\ UnchangedChat /\ UnchangedRest

\* the Remove button of a package the list shows as installed
RemovePackage(pkgName) ==
    /\ lastOp.n < MaxOps
    /\ packageList.rendered
    /\ pkgName \in Range(availablePackages) \cap Range(packageList.installed)
    /\ Commit(removePackage(St, pkgName))
    /\ lastOp' = Op("removePackage", pkgName, TRUE)
    /\ UNCHANGED completion /\ UnchangedChat /\ UnchangedRest

\* the new-file button
NewFileClick ==
    /\ Commit(IF newFileInput > 0 THEN St ELSE [St EXCEPT !.newFileInput = @ + 1])
    /\ lastOp' = Op("newFile", <<>>, FALSE)
    /\ UNCHANGED completion /\ UnchangedChat /\ UnchangedRest

\* Enter in the new-file input holding value
FileInputEnter(value, blurOnRemove) ==
    /\ lastOp.n < MaxOps
    /\ newFileInput > 0
    /\ Commit(createFile(St, value, IF blurOnRemove THEN "blurs" ELSE "quiet"))
    /\ lastOp' = Op("createFile", value, TRUE)
    /\ UNCHANGED completion /\ UnchangedChat /\ UnchangedRest

\* the new-file input holding value loses focus
FileInputBlur(value) ==
    /\ lastOp.n < MaxOps
    /\ newFileInput > 0
    /\ Commit(createFile(St, value, "quiet"))
    /\ lastOp' = Op("createFile", value, TRUE)
    /\ UNCHANGED completion /\ UnchangedChat /\ UnchangedRest

\* Escape in the new-file input holding value: the input is removed, and where
\* the browser fires blur on removal createFile runs on the detached input
FileInputEscape(value, blurOnRemove) ==
    /\ lastOp.n < MaxOps
    /\ newFileInput > 0
    /\ LET s1 == remove(St, "quiet")
       IN  Commit(IF blurOnRemove THEN createFile(s1, value, "detached") ELSE s1)
    /\ lastOp' = Op("escape", value, TRUE)
    /\ UNCHANGED completion /\ UnchangedChat /\ UnchangedRest

\* click on a file item or tab
SwitchToFile(filename) ==
    /\ lastOp.n < MaxOps
    /\ Commit(switchToFile(St, filename))
    /\ lastOp' = Op("switchToFile", filename, TRUE)
    /\ UNCHANGED completion /\ UnchangedChat /\ UnchangedRest

\* the completion source is asked at offset pos of the buffer
Complete(pos, explicit) ==
    /\ completion' = [called |-> TRUE, pos |-> pos, explicit |-> explicit,
                      result |-> latexCompletions(buffer, pos, explicit)]
    /\ UNCHANGED <<files, activeFile, buffer, originalContent, storage,
                   newFileInput, packageList, lastOp>>
    /\ UNCHANGED <<latexjs, scripts, compilations, timers, latexOutput, changes>>
    /\ UnchangedChat /\ UnchangedRest


\* the state a fresh page reaches by init() from what localStorage holds:
\* loadFromStorage, then initEditor on main.tex with its first compileLatex
FreshPage(savedFiles, time, autoCompile) ==
    LET loaded == loadFromStorage(savedFiles)
        s0 == [files |-> loaded, activeFile |-> MainTex, buffer |-> loaded[MainTex],
               originalContent |-> loaded[MainTex], storage |-> savedFiles,
               newFileInput |-> 0,
               packageList |-> [rendered |-> FALSE, installed |-> <<>>],
               latexjs |-> FALSE, scripts |-> <<>>, compilations |-> <<>>,
               timers |-> <<>>,
               latexOutput |-> [kind |-> "empty", source |-> <<>>, compilation |-> 0],
               changes |-> <<>>, now |-> time, autoCompile |-> autoCompile]
    IN  compileLatex(s0, "initEditor", 0)

\* the Diff button: renderDiff()
RenderDiff ==
    /\ diffView' = renderDiff(originalContent, files[activeFile])
    /\ lastOp' = Op("renderDiff", <<>>, FALSE)
    /\ UNCHANGED <<files, activeFile, buffer, originalContent, storage,
                   newFileInput, packageList, completion, now, served>>
    /\ UNCHANGED <<latexjs, scripts, compilations, timers, latexOutput, changes>>
    /\ UnchangedChat

\* the load event of script element k: the promise loadLatexJs awaits resolves,
\* latexjs is set and the compilation that appended the script goes on
ScriptLoads(k) ==
    /\ k \in 1..Len(scripts)
    /\ scripts[k] = "loading"
    /\ LET c  == CHOOSE c \in 1..Len(compilations) : compilations[c].script = k
           s1 == [St EXCEPT !.scripts[k] = "loaded", !.latexjs = TRUE]
       IN  Commit(compileLatexRender(s1, c))
    /\ lastOp' = Op("scriptLoads", <<>>, FALSE)
    /\ UNCHANGED completion /\ UnchangedChat /\ UnchangedRest

\* script element k fails to load: no load event, and nothing listens for the
\* error, so the compilation that appended it waits for ever
ScriptFails(k) ==
    /\ k \in 1..Len(scripts)
    /\ scripts[k] = "loading"
    /\ Commit([St EXCEPT !.scripts[k] = "failed"])
    /\ lastOp' = Op("scriptFails", <<>>, FALSE)
    /\ UNCHANGED completion /\ UnchangedChat /\ UnchangedRest

\* the oldest timer of debounce is due: compileLatex()
TimerFires ==
    /\ timers # <<>>
    /\ Head(timers).deadline <= now
    /\ Commit(compileLatex([St EXCEPT !.timers = Tail(@)], "timer", Head(timers).change))
    /\ lastOp' = Op("timer", <<>>, FALSE)
    /\ UNCHANGED completion /\ UnchangedChat /\ UnchangedRest

\* d milliseconds pass while a timer is pending and none is due
Tick(d) ==
    /\ timers # <<>>
    /\ now + d <= Head(timers).deadline
    /\ now' = now + d
    /\ lastOp' = Op("tick", <<>>, FALSE)
    /\ UNCHANGED <<files, activeFile, buffer, originalContent, storage,
                   newFileInput, packageList, completion, diffView, served>>
    /\ UNCHANGED <<latexjs, scripts, compilations, timers, latexOutput, changes>>
    /\ UnchangedChat

----------------------------------------------------------------------------
(* The dev server's middleware (vite.config.js) *)

\* the number of requests followed
MaxRequests == 3

\* request URLs
Urls == {"/app", "/app/", "/", "/app?x=1", "/App", "/app/index.html", "/application"}

\* the response untouched
NoResponse == [status |-> 0, location |-> "", ended |-> FALSE]

\* the middleware without its return (a mutation: next() runs after the redirect)
middleware_FallsThrough(url) ==
    IF url = "/app"
    THEN [res |-> [status |-> 301, location |-> "/app/", ended |-> TRUE], next |-> 1]
    ELSE [res |-> NoResponse, next |-> 1]

\* (req, res, next) => ...: what it did to res, and how often it called next()
middleware(url) ==
    IF url = "/app"
    THEN [res |-> [status |-> 301, location |-> "/app/", ended |-> TRUE], next |-> 0]
    ELSE [res |-> NoResponse, next |-> 1]

\* a request reaches the middleware
Request(url) ==
    /\ Len(served) < MaxRequests
    /\ served' = Append(served, [url |-> url] @@ middleware(url))
    /\ UNCHANGED <<files, activeFile, buffer, originalContent, storage, newFileInput,
                   packageList, completion, latexjs, scripts, compilations, timers,
                   latexOutput, changes, now, diffView, lastOp>>
    /\ UNCHANGED <<settings, savedSettings, llmProvider, chatHistory, chatMessages,
                   calls, requests>>
----------------------------------------------------------------------------
(* LLM integration *)

LLM_ENDPOINTS ==
    [openai    |-> "https://api.openai.com/v1/chat/completions",
     anthropic |-> "https://api.anthropic.com/v1/messages",
     gemini    |-> "https://generativelanguage.googleapis.com/v1beta/models/gemini-2.0-flash:generateContent",
     ollama    |-> "/api/chat"]

SYSTEM_PROMPT ==
    <<"Y","o","u"," ","a","r","e"," ","a"," ","h","e","l","p","f","u","l"," ","L","a",
      "T","e","X"," ","a","s","s","i","s","t","a","n","t"," ","i","n","t","e","g","r",
      "a","t","e","d"," ","i","n","t","o"," ","L","a","T","e","X","y",","," ","a","n",
      " ","A","I","-","p","o","w","e","r","e","d"," ","L","a","T","e","X"," ","e","d",
      "i","t","o","r","."," ","\n","\n","Y","o","u","r"," ","c","a","p","a","b","i","l",
      "i","t","i","e","s",":","\n","1","."," ","H","e","l","p"," ","u","s","e","r","s",
      " ","w","r","i","t","e"," ","a","n","d"," ","e","d","i","t"," ","L","a","T","e",
      "X"," ","d","o","c","u","m","e","n","t","s","\n","2","."," ","E","x","p","l","a",
      "i","n"," ","L","a","T","e","X"," ","c","o","n","c","e","p","t","s"," ","a","n",
      "d"," ","s","y","n","t","a","x","\n","3","."," ","S","u","g","g","e","s","t"," ",
      "a","p","p","r","o","p","r","i","a","t","e"," ","p","a","c","k","a","g","e","s",
      " ","f","o","r"," ","s","p","e","c","i","f","i","c"," ","n","e","e","d","s","\n",
      "4","."," ","F","i","x"," ","L","a","T","e","X"," ","e","r","r","o","r","s"," ",
      "a","n","d"," ","i","m","p","r","o","v","e"," ","f","o","r","m","a","t","t","i",
      "n","g","\n","5","."," ","G","e","n","e","r","a","t","e"," ","m","a","t","h","e",
      "m","a","t","i","c","a","l"," ","e","q","u","a","t","i","o","n","s",","," ","t",
      "a","b","l","e","s",","," ","f","i","g","u","r","e","s",","," ","a","n","d"," ",
      "d","i","a","g","r","a","m","s","\n","\n","W","h","e","n"," ","p","r","o","v","i",
      "d","i","n","g"," ","L","a","T","e","X"," ","c","o","d","e",","," ","w","r","a",
      "p"," ","i","t"," ","i","n"," ",BT,BT,BT,"l","a","t","e","x"," ","c","o","d",
      "e"," ","b","l","o","c","k","s"," ","s","o"," ","t","h","e"," ","u","s","e","r",
      " ","c","a","n"," ","e","a","s","i","l","y"," ","a","p","p","l","y"," ","i","t",
      " ","t","o"," ","t","h","e","i","r"," ","d","o","c","u","m","e","n","t",".","\n",
      "\n","C","u","r","r","e","n","t"," ","d","o","c","u","m","e","n","t"," ","c","o",
      "n","t","e","x","t"," ","w","i","l","l"," ","b","e"," ","p","r","o","v","i","d",
      "e","d","."," ","B","e"," ","c","o","n","c","i","s","e"," ","b","u","t"," ","t",
      "h","o","r","o","u","g","h",".">>

(* JavaScript values of a response: undefined, null, strings, objects (a
   function from keys to values) and arrays *)
Undef == [t |-> "undefined"]
Null == [t |-> "null"]
Str(s) == [t |-> "string", s |-> s]
Obj(f) == [t |-> "object", f |-> f]
Arr(a) == [t |-> "array", a |-> a]
NoKeys == <<>>

\* a thrown error, as a value that ends the evaluation it occurs in
Throw(kind, message) == [t |-> "throw", kind |-> kind, message |-> message]
Thrown(v) == v.t = "throw"

\* v[key]: reading a property of undefined or null throws a TypeError
Get(v, key) ==
    IF Thrown(v) THEN v
    ELSE IF v.t \in {"undefined", "null"} THEN Throw("TypeError", <<"cannot read", key>>)
    ELSE IF v.t = "object" /\ key \in DOMAIN v.f THEN v.f[key]
    ELSE Undef

\* v[0]
First(v) ==
    IF Thrown(v) THEN v
    ELSE IF v.t \in {"undefined", "null"} THEN Throw("TypeError", <<"cannot read", "0">>)
    ELSE IF v.t = "array" /\ Len(v.a) > 0 THEN v.a[1]
    ELSE IF v.t = "string" /\ Len(v.s) > 0 THEN Str(<<v.s[1]>>)
    ELSE Undef

\* v?.[key]
GetOptional(v, key) ==
    IF Thrown(v) THEN v
    ELSE IF v.t \in {"undefined", "null"} THEN Undef
    ELSE Get(v, key)

\* v || fallback
Falsy(v) == v.t \in {"undefined", "null"} \/ (v.t = "string" /\ v.s = <<>>)
OrElse(v, fallback) == IF Thrown(v) THEN v ELSE IF Falsy(v) THEN fallback ELSE v

\* await response.json(): the parsed body, or a SyntaxError for a body that is
\* not JSON
Json(response) ==
    IF response.json.valid THEN response.json.value
    ELSE Throw("SyntaxError", <<"Unexpected token">>)

\* the result objects of sendMessage
ErrorResult(message) == [hasError |-> TRUE, error |-> message,
                         hasContent |-> FALSE, content |-> Undef]
ContentResult(v) == [hasError |-> FALSE, error |-> <<>>,
                     hasContent |-> TRUE, content |-> v]
\* getApiKey returning the OpenAI key for every provider (a mutation)
getApiKey_AlwaysOpenAI(s, provider) == s.openaiKey

getApiKey(s, provider) ==
    CASE provider = "openai"    -> s.openaiKey
      [] provider = "anthropic" -> s.anthropicKey
      [] provider = "gemini"    -> s.geminiKey
      [] OTHER                  -> ""

\* state.chatHistory.map(m => ({ role: m.role, content: m.content }))
HistoryMessages(history) ==
    [i \in 1..Len(history) |-> [role |-> history[i].role, content |-> history[i].content]]

\* the fetch of callOpenAI
OpenAIRequest(history, s, message, apiKey) ==
    [url     |-> <<LLM_ENDPOINTS.openai>>,
     method  |-> "POST",
     headers |-> [ContentType |-> "application/json", Authorization |-> <<"Bearer ", apiKey>>],
     body    |-> [model |-> "gpt-4o-mini",
                  messages |-> <<[role |-> "system", content |-> SYSTEM_PROMPT]>>
                               \o HistoryMessages(history)
                               \o <<[role |-> "user", content |-> message]>>,
                  max_tokens |-> 2048]]

\* the fetch of callAnthropic
AnthropicRequest(history, s, message, apiKey) ==
    [url     |-> <<LLM_ENDPOINTS.anthropic>>,
     method  |-> "POST",
     headers |-> [ContentType |-> "application/json", xApiKey |-> apiKey,
                  anthropicVersion |-> "2023-06-01",
                  anthropicDangerousDirectBrowserAccess |-> "true"],
     body    |-> [model |-> "claude-3-5-sonnet-20241022",
                  max_tokens |-> 2048,
                  system |-> SYSTEM_PROMPT,
                  messages |-> HistoryMessages(history)
                               \o <<[role |-> "user", content |-> message]>>]]

\* the fetch of callGemini
GeminiRequest(history, s, message, apiKey) ==
    [url     |-> <<LLM_ENDPOINTS.gemini, "?key=", apiKey>>,
     method  |-> "POST",
     headers |-> [ContentType |-> "application/json"],
     body    |-> [contents |-> <<[role |-> "user",
                                  parts |-> <<[text |-> SYSTEM_PROMPT \o <<NL, NL>> \o message]>>]>>,
                  generationConfig |-> [maxOutputTokens |-> 2048]]]

\* the fetch of callOllama
OllamaRequest(history, s, message, apiKey) ==
    [url     |-> <<s.ollamaUrl, "/api/chat">>,
     method  |-> "POST",
     headers |-> [ContentType |-> "application/json"],
     body    |-> [model |-> "llama3.2",
                  messages |-> <<[role |-> "system", content |-> SYSTEM_PROMPT]>>
                               \o HistoryMessages(history)
                               \o <<[role |-> "user", content |-> message]>>,
                  stream |-> FALSE]]

\* error.error?.message || fallback, thrown as new Error(...)
ApiError(error, fallback) ==
    LET message == OrElse(GetOptional(Get(error, "error"), "message"), Str(<<fallback>>))
    IN  IF Thrown(message) THEN message ELSE Throw("Error", message.s)

\* callOpenAI after its fetch settled with outcome: the content it returns, or
\* the error it throws
callOpenAI(outcome) ==
    IF outcome.kind = "reject" THEN Throw("TypeError", <<"Failed to fetch">>)
    ELSE IF ~outcome.ok THEN ApiError(Json(outcome), "OpenAI API error")
    ELSE Get(Get(First(Get(Json(outcome), "choices")), "message"), "content")

callAnthropic(outcome) ==
    IF outcome.kind = "reject" THEN Throw("TypeError", <<"Failed to fetch">>)
    ELSE IF ~outcome.ok THEN ApiError(Json(outcome), "Anthropic API error")
    ELSE Get(First(Get(Json(outcome), "content")), "text")

callGemini(outcome) ==
    IF outcome.kind = "reject" THEN Throw("TypeError", <<"Failed to fetch">>)
    ELSE IF ~outcome.ok THEN ApiError(Json(outcome), "Gemini API error")
    ELSE Get(First(Get(Get(First(Get(Json(outcome), "candidates")), "content"), "parts")), "text")

callOllama(outcome) ==
    IF outcome.kind = "reject" THEN Throw("TypeError", <<"Failed to fetch">>)
    ELSE IF ~outcome.ok THEN Throw("Error", <<"Ollama connection failed. Is it running?">>)
    ELSE Get(Get(Json(outcome), "message"), "content")

\* provider.toUpperCase()
ToUpperCase(provider) ==
    CASE provider = "openai"    -> "OPENAI"
      [] provider = "anthropic" -> "ANTHROPIC"
      [] provider = "gemini"    -> "GEMINI"
      [] provider = "ollama"    -> "OLLAMA"

\* contextMessage
ContextMessage(currentContent, message) ==
    <<"C", "u", "r", "r", "e", "n", "t", " ", "L", "a", "T", "e", "X", " ", "d", "o", "c", "u", "m", "e", "n", "t", ":", "\n", BT, BT, BT, "l", "a", "t", "e", "x", "\n">> \o currentContent
    \o <<"\n", BT, BT, BT, "\n", "\n", "U", "s", "e", "r", " ", "r", "e", "q", "u", "e", "s", "t", ":", " ">> \o message

\* sendMessage up to its await: either the result it returns at once, or the
\* request it issues
sendMessageStart(history, s, provider, currentContent, message) ==
    LET apiKey == getApiKey(s, provider)
        contextMessage == ContextMessage(currentContent, message)
    IN  IF apiKey = "" /\ provider # "ollama"
        THEN [fetch |-> FALSE, request |-> <<>>,
              result |-> ErrorResult(<<"Please configure your ", ToUpperCase(provider),
                                       " API key in Settings.">>)]
        ELSE CASE provider = "openai" ->
                    [fetch |-> TRUE, result |-> <<>>,
                     request |-> OpenAIRequest(history, s, contextMessage, apiKey)]
               [] provider = "anthropic" ->
                    [fetch |-> TRUE, result |-> <<>>,
                     request |-> AnthropicRequest(history, s, contextMessage, apiKey)]
               [] provider = "gemini" ->
                    [fetch |-> TRUE, result |-> <<>>,
                     request |-> GeminiRequest(history, s, contextMessage, apiKey)]
               [] provider = "ollama" ->
                    [fetch |-> TRUE, result |-> <<>>,
                     request |-> OllamaRequest(history, s, contextMessage, apiKey)]
               [] OTHER ->
                    [fetch |-> FALSE, request |-> <<>>,
                     result |-> ErrorResult(<<"Unknown provider">>)]

\* sendMessage once the fetch of its provider settled: the try/catch around the
\* provider call
sendMessageSettle(provider, outcome) ==
    LET v == CASE provider = "openai"    -> callOpenAI(outcome)
               [] provider = "anthropic" -> callAnthropic(outcome)
               [] provider = "gemini"    -> callGemini(outcome)
               [] provider = "ollama"    -> callOllama(outcome)
    IN  IF Thrown(v) THEN ErrorResult(v.message) ELSE ContentResult(v)

----------------------------------------------------------------------------
(* Chat *)

\* text typed into the chat input
ChatInputs == { <<>>, <<" ", "h", "i", " ">> }

\* the keys saved from the settings form
KeyForms ==
    { [openaiKey |-> "", anthropicKey |-> "", geminiKey |-> "", autoCompile |-> TRUE],
      [openaiKey |-> "sk-1", anthropicKey |-> "", geminiKey |-> "g-3",
       autoCompile |-> TRUE] }

Providers == {"openai", "anthropic", "gemini", "ollama"}

\* response bodies: the answer each provider documents, the same without its
\* innermost field, an error body, an empty object and null
AnswerBody(provider, leaf) ==
    CASE provider = "openai" ->
           Obj([choices |-> Arr(<<Obj([message |-> Obj(leaf)])>>)])
      [] provider = "anthropic" ->
           Obj([content |-> Arr(<<Obj(leaf)>>)])
      [] provider = "gemini" ->
           Obj([candidates |-> Arr(<<Obj([content |-> Obj([parts |-> Arr(<<Obj(leaf)>>)])])>>)])
      [] provider = "ollama" ->
           Obj([message |-> Obj(leaf)])

LeafKey(provider) == IF provider \in {"openai", "ollama"} THEN "content" ELSE "text"

Answer == <<"o", "k">>

Bodies(provider) ==
    << AnswerBody(provider, IF LeafKey(provider) = "content"
                            THEN [content |-> Str(Answer)] ELSE [text |-> Str(Answer)]),
       AnswerBody(provider, [role |-> Str(<<"a", "s", "s", "i", "s", "t", "a", "n", "t">>)]),
       Obj([error |-> Obj([message |-> Str(<<"q", "u", "o", "t", "a">>)])]),
       Obj(NoKeys),
       Null >>

\* what a fetch can settle with: a network failure, an error status with the
\* provider's error body, or the documented answer
BasicOutcomes(provider) ==
    { [kind |-> "reject", ok |-> FALSE, json |-> [valid |-> FALSE, value |-> Undef]],
      [kind |-> "response", ok |-> FALSE,
       json |-> [valid |-> TRUE, value |-> Bodies(provider)[3]]],
      [kind |-> "response", ok |-> TRUE,
       json |-> [valid |-> TRUE, value |-> Bodies(provider)[1]]] }

\* the same, and every status with every body of Bodies or one that is not JSON
Outcomes(provider) ==
    {[kind |-> "reject", ok |-> FALSE, json |-> [valid |-> FALSE, value |-> Undef]]}
    \cup {[kind |-> "response", ok |-> ok, json |-> [valid |-> FALSE, value |-> Undef]] :
            ok \in BOOLEAN}
    \cup {[kind |-> "response", ok |-> ok,
           json |-> [valid |-> TRUE, value |-> Bodies(provider)[i]]] :
            ok \in BOOLEAN, i \in 1..Len(Bodies(provider))}

\* marked.parse(content) throws for anything but a string
MarkedThrows(v) == v.t # "string"

UnchangedDoc == UNCHANGED <<files, activeFile, buffer, originalContent, storage,
                            newFileInput, packageList, completion, latexjs, scripts,
                            compilations, timers, latexOutput, changes, now,
                            diffView, served, lastOp>>

\* the settings form is saved: saveSettingsFromForm()
SaveSettings(form) ==
    /\ settings' = [settings EXCEPT !.openaiKey = form.openaiKey,
                                    !.anthropicKey = form.anthropicKey,
                                    !.geminiKey = form.geminiKey,
                                    !.autoCompile = form.autoCompile]
    /\ savedSettings' = [saved |-> TRUE, value |-> settings']
    /\ UNCHANGED <<llmProvider, chatHistory, chatMessages, calls, requests>>
    /\ UnchangedDoc

\* the provider select changes
ChangeProvider(provider) ==
    /\ llmProvider' = provider
    /\ UNCHANGED <<settings, savedSettings, chatHistory, chatMessages, calls, requests>>
    /\ UnchangedDoc

\* the rest of handleSend once sendMessage resolved with response, for call id
AfterResponse(id, response, history, messages) ==
    LET shown == SelectSeq(messages, LAMBDA b : ~(b.loading /\ b.call = id))
    IN  IF response.hasError
        THEN [pc |-> "done", history |-> history,
              messages |-> Append(shown, [role |-> "assistant", loading |-> FALSE,
                                         call |-> id, warning |-> TRUE,
                                         content |-> response.error])]
        ELSE IF MarkedThrows(response.content)
        THEN [pc |-> "rejected", history |-> history, messages |-> shown]
        ELSE [pc |-> "done",
              history |-> Append(history, [role |-> "assistant",
                                           content |-> response.content.s]),
              messages |-> Append(shown, [role |-> "assistant", loading |-> FALSE,
                                         call |-> id, warning |-> FALSE,
                                         content |-> response.content.s])]

\* Enter in the chat input, or the send button: handleSend up to the await of
\* the fetch (or to its end, when sendMessage returns without a fetch)
HandleSend(input) ==
    LET message == Trim(input)
        id      == Len(calls) + 1
        history == Append(chatHistory, [role |-> "user", content |-> message])
        bubbles == chatMessages
                   \o <<[role |-> "user", loading |-> FALSE, call |-> id,
                         warning |-> FALSE, content |-> message],
                        [role |-> "assistant", loading |-> TRUE, call |-> id,
                         warning |-> FALSE, content |-> <<>>]>>
        start   == sendMessageStart(history, settings, llmProvider,
                                    files[activeFile], message)
        call    == [pc |-> "awaitFetch", message |-> message, provider |-> llmProvider,
                    settings |-> settings, prior |-> chatHistory,
                    document |-> files[activeFile], result |-> start.result,
                    outcome |-> <<>>]
    IN  /\ IF message = <<>>
           THEN UNCHANGED <<chatHistory, chatMessages, calls, requests>>
           ELSE IF start.fetch
           THEN /\ chatHistory' = history
                /\ chatMessages' = bubbles
                /\ calls' = Append(calls, call)
                /\ requests' = Append(requests, [call |-> id, request |-> start.request])
           ELSE LET after == AfterResponse(id, start.result, history, bubbles)
                IN  /\ chatHistory' = after.history
                    /\ chatMessages' = after.messages
                    /\ calls' = Append(calls, [call EXCEPT !.pc = after.pc])
                    /\ requests' = requests
        /\ UNCHANGED <<settings, savedSettings, llmProvider>>
        /\ UnchangedDoc

\* the fetch of call id settles with outcome: sendMessage resolves and handleSend
\* runs to its end
FetchSettles(id, outcome) ==
    /\ calls[id].pc = "awaitFetch"
    /\ LET response == sendMessageSettle(calls[id].provider, outcome)
           after    == AfterResponse(id, response, chatHistory, chatMessages)
       IN  /\ calls' = [calls EXCEPT ![id] = [@ EXCEPT !.pc = after.pc,
                                                       !.result = response,
                                                       !.outcome = outcome]]
           /\ chatHistory' = after.history
           /\ chatMessages' = after.messages
    /\ UNCHANGED <<settings, savedSettings, llmProvider, requests>>
    /\ UnchangedDoc

----------------------------------------------------------------------------
(* Specifications *)

DefaultSettings == [openaiKey |-> "", anthropicKey |-> "", geminiKey |-> "",
                    ollamaUrl |-> "http://localhost:11434", autoCompile |-> TRUE]

\* the state after init() where localStorage holds main.tex with content doc and
\* no settings: loadFromStorage, then initEditor creating the editor on the
\* active file's content and starting the first compilation
InitWith(doc) ==
    LET st == FreshPage({[name |-> JSONStringify(MainTex),
                          content |-> JSONStringify(doc)]}, 0, TRUE)
    IN  /\ files = st.files
        /\ activeFile = st.activeFile
        /\ buffer = st.buffer
        /\ originalContent = st.originalContent
        /\ storage = st.storage
        /\ newFileInput = st.newFileInput
        /\ packageList = st.packageList
        /\ latexjs = st.latexjs
        /\ scripts = st.scripts
        /\ compilations = st.compilations
        /\ timers = st.timers
        /\ latexOutput = st.latexOutput
        /\ changes = st.changes
        /\ now = 0
        /\ settings = DefaultSettings
        /\ savedSettings = [saved |-> FALSE, value |-> DefaultSettings]
        /\ llmProvider = "openai"
        /\ chatHistory = <<>>
        /\ chatMessages = <<>>
        /\ calls = <<>>
        /\ requests = <<>>
        /\ completion = [called |-> FALSE, pos |-> 0, explicit |-> FALSE,
                         result |-> NullCompletion]
        /\ diffView = <<>>
        /\ served = <<>>
        /\ lastOp = [op |-> "init", arg |-> <<>>, file |-> MainTex, doc |-> doc,
                     content |-> doc, files |-> [f \in {MainTex} |-> doc], n |-> 0]

\* the page is loaded again: a fresh session on what localStorage holds
Reload ==
    /\ MainTex \in DOMAIN loadFromStorage(storage)
    /\ settings' = IF savedSettings.saved THEN savedSettings.value ELSE DefaultSettings
    /\ Commit(FreshPage(storage, now, settings'.autoCompile))
    /\ llmProvider' = "openai"
    /\ chatHistory' = <<>>
    /\ chatMessages' = <<>>
    /\ calls' = <<>>
    /\ requests' = <<>>
    /\ completion' = [called |-> FALSE, pos |-> 0, explicit |-> FALSE,
                      result |-> NullCompletion]
    /\ diffView' = <<>>
    /\ lastOp' = Op("reload", <<>>, FALSE)
    /\ UNCHANGED <<savedSettings, now, served>>

EditRanges == {r \in {<<0, 0>>, <<Len(buffer), Len(buffer)>>,
                      <<Len(buffer) - 1, Len(buffer)>>, <<0, Len(buffer)>>} : r[1] >= 0}

NextCompletion ==
    \E pos \in 0..Len(buffer), explicit \in BOOLEAN : Complete(pos, explicit)

NextPackages ==
    \/ RenderPackages
    \/ \E p \in PackageInputs : AddPackage(p)
    \/ \E p \in PackageInputs : RemovePackage(p)

NextEditor ==
    \/ \E r \in EditRanges, insert \in EditInserts : TypeEdit(r[1], r[2], insert)
    \/ \E code \in Codes : ApplyCode(code)
    \/ NewFileClick
    \/ \E value \in FileInputs, blurOnRemove \in BOOLEAN : FileInputEnter(value, blurOnRemove)
    \/ \E value \in FileInputs : FileInputBlur(value)
    \/ \E value \in FileInputs, blurOnRemove \in BOOLEAN : FileInputEscape(value, blurOnRemove)
    \/ \E filename \in FileNames : SwitchToFile(filename)

NextChat ==
    \/ \E form \in KeyForms : SaveSettings(form)
    \/ \E provider \in Providers : ChangeProvider(provider)
    \/ Len(calls) < MaxSends /\ \E input \in ChatInputs : HandleSend(input)
    \/ \E id \in 1..Len(calls) : \E outcome \in BasicOutcomes(calls[id].provider) :
           FetchSettles(id, outcome)

NextResponses ==
    \/ \E form \in KeyForms : SaveSettings(form)
    \/ \E provider \in Providers : ChangeProvider(provider)
    \/ Len(calls) < MaxResponseSends /\ \E input \in ChatInputs : HandleSend(input)
    \/ \E id \in 1..Len(calls) : \E outcome \in Outcomes(calls[id].provider) :
           FetchSettles(id, outcome)

Init == \E doc \in EditorDocs : InitWith(doc)

\* the files, what is typed into them, and the page loaded again
NextStorage ==
    \/ \E r \in EditRanges, insert \in StorageInserts : TypeEdit(r[1], r[2], insert)
    \/ NewFileClick
    \/ \E value \in FileInputs : FileInputBlur(value)
    \/ \E filename \in FileNames : SwitchToFile(filename)
    \/ Reload

\* the preview: edits, file switches, the clock, the timers of debounce and
\* the load of the latex.js scripts
NextPreview ==
    \/ \E r \in EditRanges, insert \in EditInserts : TypeEdit(r[1], r[2], insert)
    \/ \E filename \in FileNames : SwitchToFile(filename)
    \/ \E form \in PreviewForms : SaveSettings(form)
    \/ \E d \in Delays : Tick(d)
    \/ TimerFires
    \/ \E k \in 1..Len(scripts) : ScriptLoads(k)
    \/ \E k \in 1..Len(scripts) : ScriptFails(k)

\* the dev server
NextServer == \E url \in Urls : Request(url)

\* the Diff button
NextDiff == RenderDiff

Next == NextCompletion \/ NextPackages \/ NextEditor \/ NextChat \/ NextResponses
        \/ NextDiff \/ NextStorage \/ NextPreview \/ NextServer

Spec == Init /\ [][Next]_vars

\* the completion source on the documents of CompletionDocs
InitCompletion == \E doc \in CompletionDocs : InitWith(doc)
SpecCompletion == InitCompletion /\ [][NextCompletion]_vars

\* the package manager on the documents of PackageDocs
InitPackages == \E doc \in PackageDocs : InitWith(doc)
SpecPackages == InitPackages /\ [][NextPackages]_vars

\* the editor, the files and the package manager on the documents of EditorDocs
SpecEditor == Init /\ [][NextEditor \/ NextPackages]_vars

\* the chat on one document
InitChat == InitWith(<<"\\", "d", "o", "c", "u", "m", "e", "n", "t", "c", "l", "a", "s", "s", "{", "a", "}", "\n", "x">>)
SpecChat == InitChat /\ [][NextChat]_vars

\* one exchange with every outcome of Outcomes
SpecResponses == InitChat /\ [][NextResponses]_vars


\* the editor and the diff view on the documents of EditorDocs
SpecDiff == Init /\ [][NextEditor \/ NextDiff]_vars

\* the files and their storage on the documents of EditorDocs
SpecStorage == Init /\ [][NextStorage]_vars

\* the preview on one document
InitPreview == InitWith(<<"\\", "d", "o", "c", "u", "m", "e", "n", "t", "c", "l", "a", "s", "s", "{", "a", "}", "\n", "x">>)
SpecPreview == InitPreview /\ [][NextPreview]_vars

\* the dev server
SpecServer == InitChat /\ [][NextServer]_vars

\* the files under every operation that writes them, and the page loaded again
SpecFiles == Init /\ [][NextStorage \/ NextEditor \/ NextPackages]_vars
----------------------------------------------------------------------------
(* Properties of the completion source *)

\* the offset at which the line holding pos starts
LineStart(doc, pos) ==
    CHOOSE f \in 0..pos :
        /\ f = 0 \/ doc[f] = NL
        /\ \A k \in (f + 1)..pos : doc[k] # NL

\* the offset at which the run of characters of class that ends at pos starts
RunStart(doc, pos, class) ==
    CHOOSE t \in LineStart(doc, pos)..pos :
        /\ \A k \in (t + 1)..pos : doc[k] \in class
        /\ t = LineStart(doc, pos) \/ doc[t] \notin class

\* the text of the line before pos ends with \usepackage{ and then word
\* characters or commas only
InPackageArgument(doc, pos) ==
    LET t == RunStart(doc, pos, WordChar \cup {","})
    IN  /\ t - 12 >= LineStart(doc, pos)
        /\ Slice(doc, t - 12, t) = <<"\\", "u", "s", "e", "p", "a", "c", "k", "a", "g", "e", "{">>

\* where the package name being typed starts: after the last { or comma
NameStart(doc, pos) == RunStart(doc, pos, WordChar)

\* an optional backslash followed by word or @ characters
IsToken(t) ==
    \/ \A k \in 1..Len(t) : t[k] \in WordChar \cup {"@"}
    \/ /\ Len(t) > 0
       /\ t[1] = BS
       /\ \A k \in 2..Len(t) : t[k] \in WordChar \cup {"@"}

\* where the longest token ending at pos starts
LongestTokenStart(doc, pos) ==
    CHOOSE f \in LineStart(doc, pos)..pos :
        /\ IsToken(Slice(doc, f, pos))
        /\ \A g \in LineStart(doc, pos)..(f - 1) : ~IsToken(Slice(doc, g, pos))

IsPackageResult(r, doc, pos) ==
    /\ ~r.null
    /\ r.options = packageCompletions
    /\ r.from = NameStart(doc, pos)

\* C1 as claimed: at every position inside the argument of \usepackage{ the
\* result is the package candidates from the start of the name being typed, also
\* for an empty name and without an explicit request
C1_PackageCandidatesAlways ==
    (completion.called /\ InPackageArgument(buffer, completion.pos))
        => IsPackageResult(completion.result, buffer, completion.pos)

\* C1 amended: inside the argument of \usepackage{ the result is the package
\* candidates from the start of the name being typed when the name is non-empty
\* or completion was requested explicitly, and no result otherwise
C1_PackageCandidates ==
    (completion.called /\ InPackageArgument(buffer, completion.pos))
        => IF NameStart(buffer, completion.pos) = completion.pos /\ ~completion.explicit
           THEN completion.result.null
           ELSE IsPackageResult(completion.result, buffer, completion.pos)

\* an explicit request directly after a comma of the argument was answered
C1_Witness ==
    /\ completion.called
    /\ completion.explicit
    /\ InPackageArgument(buffer, completion.pos)
    /\ completion.pos > 0
    /\ buffer[completion.pos] = ","
    /\ IsPackageResult(completion.result, buffer, completion.pos)

\* C2: outside the argument of \usepackage{ a result holds exactly the commands,
\* table snippets and environment snippets, no package candidate, and starts
\* at the longest token (optional backslash, then word or @ characters) that
\* ends at the cursor
C2_GeneralCandidates ==
    (completion.called /\ ~InPackageArgument(buffer, completion.pos)
                       /\ ~completion.result.null)
        => /\ Range(completion.result.options)
                = Range(latexCommands) \cup Range(tableSnippets) \cup Range(environmentSnippets)
           /\ Range(completion.result.options) \cap Range(packageCompletions) = {}
           /\ completion.result.from = LongestTokenStart(buffer, completion.pos)

\* a command was being typed: the token starts with its backslash
C2_Witness ==
    /\ completion.called
    /\ ~InPackageArgument(buffer, completion.pos)
    /\ ~completion.result.null
    /\ completion.result.from < completion.pos
    /\ buffer[completion.result.from + 1] = BS
    /\ "\\section" \in Range(completion.result.options)

----------------------------------------------------------------------------
(* Properties of the LLM dispatch *)

\* the requests issued by call id
RequestsOf(id) == {i \in 1..Len(requests) : requests[i].call = id}

\* the key the settings hold for a provider
ConfiguredKey(s, provider) ==
    IF provider = "openai" THEN s.openaiKey
    ELSE IF provider = "anthropic" THEN s.anthropicKey
    ELSE IF provider = "gemini" THEN s.geminiKey
    ELSE ""

\* where the requests of a provider go
Endpoint(s, provider) ==
    IF provider = "ollama" THEN s.ollamaUrl ELSE LLM_ENDPOINTS[provider]

\* C3: a send with no key configured for a provider other than ollama issues no
\* request and returns the error asking for the key; every other send issues
\* exactly one request, to the provider selected when it was called, whatever
\* happens to that request and to the selection afterwards
C3_OneRequestPerSend ==
    \A id \in 1..Len(calls) :
        LET c == calls[id]
        IN  IF c.provider # "ollama" /\ ConfiguredKey(c.settings, c.provider) = ""
            THEN /\ RequestsOf(id) = {}
                 /\ c.result.hasError
                 /\ c.result.error[1] = "Please configure your "
            ELSE /\ Cardinality(RequestsOf(id)) = 1
                 /\ \A i \in RequestsOf(id) :
                        Head(requests[i].request.url) = Endpoint(c.settings, c.provider)

\* a request failed, the selection changed since, and the failed send still has
\* its one request, which went to the provider selected when it was called
C3_Witness ==
    \E id \in 1..Len(calls) :
        /\ calls[id].pc = "done"
        /\ calls[id].result.hasError
        /\ Cardinality(RequestsOf(id)) = 1
        /\ calls[id].provider = "openai"
        /\ llmProvider = "gemini"
        /\ Len(calls) > id

\* the fields of the answer each provider documents
AnswerPath(provider) ==
    CASE provider = "openai"    -> <<"choices", "[0]", "message", "content">>
      [] provider = "anthropic" -> <<"content", "[0]", "text">>
      [] provider = "gemini"    -> <<"candidates", "[0]", "content", "parts", "[0]", "text">>
      [] provider = "ollama"    -> <<"message", "content">>

\* the value holds a string at the end of the path
RECURSIVE HasPath(_, _)
HasPath(v, path) ==
    IF path = <<>> THEN v.t = "string"
    ELSE IF Head(path) = "[0]"
    THEN v.t = "array" /\ Len(v.a) > 0 /\ HasPath(v.a[1], Tail(path))
    ELSE v.t = "object" /\ Head(path) \in DOMAIN v.f /\ HasPath(v.f[Head(path)], Tail(path))

\* the fetch of the call failed: it threw, the status was not OK, or the body
\* was not JSON or lacks the fields of the answer
IsFailure(c) ==
    \/ c.outcome.kind = "reject"
    \/ ~c.outcome.ok
    \/ ~c.outcome.json.valid
    \/ ~HasPath(c.outcome.json.value, AnswerPath(c.provider))

\* C4: whenever the request of a send failed, sendMessage resolved to an object
\* with an error message and without content
C4_FailuresBecomeErrors ==
    \A id \in 1..Len(calls) :
        (RequestsOf(id) # {} /\ calls[id].pc # "awaitFetch" /\ IsFailure(calls[id]))
            => /\ calls[id].result.hasError
               /\ calls[id].result.error # <<>>
               /\ ~calls[id].result.hasContent

IsPrefix(s, t) == Len(s) <= Len(t) /\ SubSeq(t, 1, Len(s)) = s

EndsWith(s, suffix) ==
    Len(suffix) <= Len(s) /\ SubSeq(s, Len(s) - Len(suffix) + 1, Len(s)) = suffix

\* the conversation a request carries: the system prompt, the messages before
\* the last, and the last message
Conversation(provider, body) ==
    CASE provider \in {"openai", "ollama"} ->
           [system  |-> IF body.messages[1].role = "system"
                        THEN body.messages[1].content ELSE <<>>,
            history |-> SubSeq(body.messages, 2, Len(body.messages) - 1),
            final   |-> body.messages[Len(body.messages)]]
      [] provider = "anthropic" ->
           [system  |-> body.system,
            history |-> SubSeq(body.messages, 1, Len(body.messages) - 1),
            final   |-> body.messages[Len(body.messages)]]
      [] provider = "gemini" ->
           LET last == body.contents[Len(body.contents)]
               text == last.parts[1].text
               lead == SYSTEM_PROMPT \o <<NL, NL>>
           IN  [system  |-> IF IsPrefix(lead, text) THEN SYSTEM_PROMPT ELSE <<>>,
                history |-> [i \in 1..(Len(body.contents) - 1) |->
                               [role |-> body.contents[i].role,
                                content |-> body.contents[i].parts[1].text]],
                final   |-> [role |-> last.role,
                             content |-> IF IsPrefix(lead, text)
                                         THEN SubSeq(text, Len(lead) + 1, Len(text))
                                         ELSE text]]

\* C5: whichever provider a request goes to, it carries the system prompt, the
\* entries chatHistory held before this send in their order, and a final user
\* message made of the active file's content and the user's request
C5_SameConversation ==
    \A i \in 1..Len(requests) :
        LET c == calls[requests[i].call]
            conv == Conversation(c.provider, requests[i].request.body)
        IN  /\ conv.system = SYSTEM_PROMPT
            /\ IsPrefix(HistoryMessages(c.prior), conv.history)
            /\ conv.final.role = "user"
            /\ Includes(conv.final.content, c.document)
            /\ EndsWith(conv.final.content, c.message)

----------------------------------------------------------------------------
(* Properties of the document and package model *)

\* C6: the active file's content is the editor's text, and an operation leaves
\* every file but the active one as it was before the operation
C6_ActiveContentIsBuffer ==
    /\ activeFile \in DOMAIN files
    /\ files[activeFile] = buffer
    /\ DOMAIN lastOp.files \subseteq DOMAIN files
    /\ \A f \in DOMAIN lastOp.files \ {activeFile} : files[f] = lastOp.files[f]

\* text was typed into a second file whose content differs from main.tex
C6_Witness ==
    /\ lastOp.op = "type"
    /\ activeFile # MainTex
    /\ lastOp.doc # buffer
    /\ files[MainTex] # buffer

EndDocument == <<"\\", "e", "n", "d", "{", "d", "o", "c", "u", "m", "e", "n", "t", "}">>

Occurrences(s, pat) == {i \in 0..(Len(s) - Len(pat)) : StartsWithAt(s, i, pat)}

\* C7: applying code that contains \documentclass replaces the buffer by the
\* code; other code goes, followed by two newlines, right before the last
\* \end{document} of the buffer, or, when there is none, after two newlines at
\* the end; the rest of the buffer is unchanged
C7_ApplyCode ==
    lastOp.op = "applyCode" =>
        LET code == lastOp.arg
            before == lastOp.doc
            ends == Occurrences(before, EndDocument)
        IN  IF Occurrences(code, DocumentClass) # {} THEN buffer = code
            ELSE IF ends # {}
            THEN \E p \in ends :
                    /\ \A q \in ends : q <= p
                    /\ buffer = SubSeq(before, 1, p) \o code \o <<NL, NL>>
                                \o SubSeq(before, p + 1, Len(before))
            ELSE buffer = before \o <<NL, NL>> \o code

\* a snippet was applied to a buffer holding \end{document} twice
C7_Witness ==
    /\ lastOp.op = "applyCode"
    /\ Occurrences(lastOp.arg, DocumentClass) = {}
    /\ Cardinality(Occurrences(lastOp.doc, EndDocument)) = 2
    /\ buffer # lastOp.doc

\* the offsets k of a { that opens the argument of a \usepackage directive
\* starting at offset i: directly after \usepackage, or after [options] on one
\* line; the argument is not empty and is closed by a }
DirectiveBraces(s, i) ==
    {k \in (i + Len(UsePackage))..(Len(s) - 1) :
        /\ StartsWithAt(s, i, UsePackage)
        /\ s[k + 1] = "{"
        /\ \/ k = i + Len(UsePackage)
           \/ /\ s[i + Len(UsePackage) + 1] = "["
              /\ k >= i + Len(UsePackage) + 2
              /\ s[k] = "]"
              /\ \A x \in (i + Len(UsePackage) + 2)..(k - 1) : s[x] \notin LineTerminator
        /\ \E c \in (k + 2)..(Len(s) - 1) :
              s[c + 1] = "}" /\ \A x \in (k + 2)..c : s[x] # "}"}

\* the offset of the } closing the argument opened at k
ArgumentEnd(s, k) == CHOOSE c \in (k + 1)..(Len(s) - 1) :
                        s[c + 1] = "}" /\ \A x \in (k + 2)..c : s[x] # "}"

\* the trimmed names of the comma-separated argument opened at k
ArgumentNames(s, k) == {Trim(x) : x \in Range(Split(Slice(s, k + 1, ArgumentEnd(s, k)), ","))}

\* no directive that starts before offset i reaches over it
Uncovered(s, i) ==
    \A j \in 0..(i - 1) : \A k \in DirectiveBraces(s, j) : ArgumentEnd(s, k) < i

C9_RemovedIsGone ==
    (lastOp.op = "removePackage" /\ lastOp.arg \in Range(InstalledIn(lastOp.content)))
        => lastOp.arg \notin Range(InstalledIn(files[activeFile]))

\* the lines holding pat
LinesWith(lines, pat) == {i \in 1..Len(lines) : Occurrences(lines[i], pat) # {}}

Max(S) == CHOOSE x \in S : \A y \in S : y <= x

\* the number of lines the new directive comes after
LinesBefore(lines) ==
    IF LinesWith(lines, UsePackage) # {} THEN Max(LinesWith(lines, UsePackage))
    ELSE IF LinesWith(lines, DocumentClass) # {} THEN Min(LinesWith(lines, DocumentClass))
    ELSE 0

\* C10: addPackage(p) puts the one line \usepackage{p} right after the last line
\* holding \usepackage, else right after the first line holding \documentclass,
\* else first; the lines there were are kept, unchanged and in order
C10_AddPackage ==
    lastOp.op = "addPackage" =>
        LET old == Split(lastOp.content, NL)
            new == Split(files[activeFile], NL)
            n   == LinesBefore(old)
        IN  /\ Len(new) = Len(old) + 1
            /\ new[n + 1] = UsePackage \o <<"{">> \o lastOp.arg \o <<"}">>
            /\ SubSeq(new, 1, n) = SubSeq(old, 1, n)
            /\ SubSeq(new, n + 2, Len(new)) = SubSeq(old, n + 1, Len(old))
            /\ buffer = files[activeFile]

\* a package was added to a document of two lines that both hold \documentclass
\* and no \usepackage
C10_Witness ==
    /\ lastOp.op = "addPackage"
    /\ LinesWith(Split(lastOp.content, NL), UsePackage) = {}
    /\ LinesWith(Split(lastOp.content, NL), DocumentClass) = {1, 2}
    /\ Len(Split(files[activeFile], NL)) = 3


----------------------------------------------------------------------------
(* The diff view *)

\* the offsets of the newlines of s
NewlinesOf(s) == {k \in 0..(Len(s) - 1) : s[k + 1] = NL}

NumLines(s) == Cardinality(NewlinesOf(s)) + 1

\* line i of s (from 1), the empty string when s has fewer lines: the text
\* between the newline before which i - 2 newlines lie and the next one
LineOrEmpty(s, i) ==
    LET nl    == NewlinesOf(s)
        Nth(n) == CHOOSE k \in nl : Cardinality({j \in nl : j < k}) = n - 1
        from  == IF i = 1 THEN 0 ELSE Nth(i - 1) + 1
        to    == IF i = NumLines(s) THEN Len(s) ELSE Nth(i)
    IN  IF i > NumLines(s) THEN <<>> ELSE Slice(s, from, to)

\* C11: renderDiff writes one row per line index of the longer text, and row i
\* is marked exactly when line i of originalContent differs from line i of the
\* active file's content, a missing line counting as the empty string
C11_DiffRows ==
    lastOp.op = "renderDiff" =>
        /\ Len(diffView) = IF NumLines(originalContent) >= NumLines(files[activeFile])
                           THEN NumLines(originalContent)
                           ELSE NumLines(files[activeFile])
        /\ \A i \in 1..Len(diffView) :
              /\ diffView[i].original = LineOrEmpty(originalContent, i)
              /\ diffView[i].modified = LineOrEmpty(files[activeFile], i)
              /\ diffView[i].marked <=>
                   LineOrEmpty(originalContent, i) # LineOrEmpty(files[activeFile], i)

\* a diff after a line was inserted at the top: a row is marked although its
\* original line is the modified line of the next row, and the modified text
\* has one line more than the original
C11_Witness ==
    /\ lastOp.op = "renderDiff"
    /\ NumLines(files[activeFile]) = NumLines(originalContent) + 1
    /\ \E i \in 1..(Len(diffView) - 1) :
          /\ diffView[i].marked
          /\ diffView[i].original # <<>>
          /\ diffView[i].original = diffView[i + 1].modified
    /\ diffView[Len(diffView)].original = <<>>

----------------------------------------------------------------------------
(* Storage *)

\* C12: what localStorage holds reads back as state.files, names and contents,
\* in every state (each change writes it); so a fresh session started in any
\* state has the files the session before it had at its last change
C12_RoundTrip ==
    /\ loadFromStorage(storage) = files
    /\ lastOp.op = "reload" => files = lastOp.files

\* a fresh session on two files, one holding a quote, a backslash and a newline
C12_Witness ==
    /\ lastOp.op = "reload"
    /\ Cardinality(DOMAIN files) = 2
    /\ \E f \in DOMAIN files :
          /\ Includes(files[f], <<QT>>)
          /\ Includes(files[f], <<BS>>)
          /\ Includes(files[f], <<NL>>)

----------------------------------------------------------------------------
(* The preview *)

\* nothing is pending: no timer of debounce, and every compilation has written
\* its result
Quiescent ==
    /\ timers = <<>>
    /\ \A c \in 1..Len(compilations) : compilations[c].pc = "done"

\* auto-compile is on and was on at every change
AutoCompileOn ==
    /\ settings.autoCompile
    /\ \A k \in 1..Len(changes) : changes[k].autoCompile

\* C13: with auto-compile on, once nothing is pending the preview shows the
\* result for the active file's current content, and of two compilations the
\* one started first writes its result first
C13_PreviewFresh ==
    /\ AutoCompileOn /\ Quiescent =>
          /\ latexOutput.kind = "output"
          /\ latexOutput.source = files[activeFile]
    /\ \A c, d \in 1..Len(compilations) :
          (c < d /\ compilations[c].pc = "done" /\ compilations[d].pc = "done")
              => compilations[c].finished < compilations[d].finished

\* C15: a compilation started by a timer of debounce belongs to the last change
\* of its burst: no later change came less than 500 ms after the change that
\* set the timer
C15_Debounced ==
    \A c \in 1..Len(compilations) :
        (compilations[c].by = "timer" /\ changes[compilations[c].change].autoCompile) =>
            /\ compilations[c].started = changes[compilations[c].change].at + 500
            /\ ~\E k \in 1..Len(changes) :
                   /\ changes[k].at > changes[compilations[c].change].at
                   /\ changes[k].at - changes[compilations[c].change].at < 500

\* C16: the latex.js script element is appended at most once
C16_ScriptOnce == Len(scripts) <= 1

----------------------------------------------------------------------------
(* The dev server *)

\* C14: a request for exactly /app is answered 301 with Location /app/, the
\* response ended and next() not called; any other request goes to next() once
\* and its response is left alone
C14_Redirect ==
    \A i \in 1..Len(served) :
        IF served[i].url = "/app"
        THEN /\ served[i].res = [status |-> 301, location |-> "/app/", ended |-> TRUE]
             /\ served[i].next = 0
        ELSE /\ served[i].res = [status |-> 0, location |-> "", ended |-> FALSE]
             /\ served[i].next = 1

\* /app was requested, and so were /app/ and /app?x=1
C14_Witness ==
    /\ \E i \in 1..Len(served) : served[i].url = "/app" /\ served[i].res.status = 301
    /\ \E i \in 1..Len(served) : served[i].url = "/app/" /\ served[i].next = 1
    /\ \E i \in 1..Len(served) : served[i].url = "/app?x=1" /\ served[i].next = 1

----------------------------------------------------------------------------
(* The chat history *)

InFlight == {id \in 1..Len(calls) : calls[id].pc = "awaitFetch"}

\* C17: with no send in flight chatHistory alternates: it starts with a user
\* entry and no two neighbours have the same role
C17_Alternates ==
    InFlight = {} =>
        /\ chatHistory # <<>> => chatHistory[1].role = "user"
        /\ \A i \in 1..(Len(chatHistory) - 1) :
              chatHistory[i].role # chatHistory[i + 1].role

\* C18: a request carries the message being sent once, as its final message
\* together with the document; the messages before the final one are entries
\* chatHistory held before this send, in their order
C18_MessageOnce ==
    \A i \in 1..Len(requests) :
        LET c == calls[requests[i].call]
            conv == Conversation(c.provider, requests[i].request.body)
        IN  /\ conv.final.role = "user"
            /\ Includes(conv.final.content, c.document)
            /\ EndsWith(conv.final.content, c.message)
            /\ IsPrefix(conv.history, HistoryMessages(c.prior))

\* the sends that have run to their end, and those of them that got no answer:
\* no request went out, or the request failed
Settled == {id \in 1..Len(calls) : calls[id].pc # "awaitFetch"}

Failed == {id \in Settled : RequestsOf(id) = {} \/ IsFailure(calls[id])}

\* C19: every send adds one user entry to chatHistory; a send that got no
\* answer adds nothing else and shows its error text in an assistant bubble; a
\* send that got an answer adds one assistant entry holding it; the document is
\* what it was when the message was sent
C19_HandleSend ==
    /\ Cardinality({i \in 1..Len(chatHistory) : chatHistory[i].role = "user"}) = Len(calls)
    /\ Cardinality({i \in 1..Len(chatHistory) : chatHistory[i].role = "assistant"})
         = Cardinality(Settled \ Failed)
    /\ \A i \in 1..Len(chatHistory) :
          chatHistory[i].role = "assistant" => chatHistory[i].content = Answer
    /\ \A id \in Failed :
          /\ calls[id].result.hasError
          /\ \E b \in 1..Len(chatMessages) :
                /\ chatMessages[b].call = id
                /\ chatMessages[b].role = "assistant"
                /\ chatMessages[b].warning
                /\ chatMessages[b].content = calls[id].result.error
    /\ \A id \in Settled :
          calls[id].document = files[activeFile] /\ buffer = files[activeFile]

----------------------------------------------------------------------------
(* New files *)

\* C20: there is never more than one new-file input; the handlers of the input
\* leave every existing file as it was, and add at most the file named by the
\* trimmed value, which then did not exist, is not empty, and holds "% name"
\* and two newlines; Enter or blur on such a name does add it
C20_NewFile ==
    /\ newFileInput <= 1
    /\ lastOp.op \in {"createFile", "escape"} =>
          LET name == Trim(lastOp.arg)
          IN  /\ \A f \in DOMAIN lastOp.files :
                    f \in DOMAIN files /\ files[f] = lastOp.files[f]
              /\ DOMAIN files \ DOMAIN lastOp.files \subseteq {name}
              /\ name \in DOMAIN files \ DOMAIN lastOp.files =>
                    /\ name # <<>>
                    /\ files[name] = <<"%", " ">> \o name \o <<NL, NL>>
              /\ (lastOp.op = "createFile" /\ name # <<>>) => name \in DOMAIN files

\* a file was created from a value with blanks around the name, and no input
\* is left
C20_Witness ==
    /\ lastOp.op = "createFile"
    /\ Trim(lastOp.arg) # lastOp.arg
    /\ Trim(lastOp.arg) \in DOMAIN files \ DOMAIN lastOp.files
    /\ files[Trim(lastOp.arg)] = <<"%", " ">> \o Trim(lastOp.arg) \o <<NL, NL>>
    /\ activeFile = Trim(lastOp.arg)
    /\ newFileInput = 0

----------------------------------------------------------------------------
(* Switching files *)

\* a step of switchToFile(lastOp'.arg)
SwitchStep == lastOp'.op = "switchToFile" /\ lastOp' # lastOp

\* C21: switchToFile(f) for a file f of state.files leaves the content of every
\* file as it was (and so what is stored), makes f the active file, puts f's
\* content into the buffer and into originalContent, so that renderDiff marks
\* no row; settings and chat are untouched.  For any other name nothing changes
C21_SwitchToFile ==
    [][SwitchStep =>
         LET f == lastOp'.arg
         IN  IF f \in DOMAIN files
             THEN /\ files' = files
                  /\ storage' = storage
                  /\ activeFile' = f
                  /\ buffer' = files[f]
                  /\ originalContent' = files[f]
                  /\ \A i \in 1..Len(renderDiff(originalContent', files'[activeFile'])) :
                        ~renderDiff(originalContent', files'[activeFile'])[i].marked
                  /\ UNCHANGED <<settings, llmProvider, chatHistory, newFileInput,
                                 packageList>>
             ELSE UNCHANGED <<files, storage, activeFile, buffer, originalContent,
                              settings, llmProvider, chatHistory, newFileInput,
                              packageList, latexjs, scripts, compilations, timers,
                              latexOutput, changes>>]_vars

\* the switch went from one file to another one with a different content
C21_Witness ==
    /\ lastOp.op = "switchToFile"
    /\ lastOp.arg \in DOMAIN lastOp.files
    /\ lastOp.arg # lastOp.file
    /\ activeFile = lastOp.arg
    /\ lastOp.doc # buffer
    /\ files[lastOp.file] = lastOp.doc

----------------------------------------------------------------------------
(* The active file *)

\* C22: state.activeFile names a file of state.files; no operation removes a
\* file, so main.tex is among the files, and among the stored ones a fresh
\* session starts from
C22_ActiveFileExists ==
    /\ activeFile \in DOMAIN files
    /\ MainTex \in DOMAIN files
    /\ MainTex \in DOMAIN loadFromStorage(storage)
    /\ DOMAIN lastOp.files \subseteq DOMAIN files

\* a fresh session on two files, started while the other file was active
C22_Witness ==
    /\ lastOp.op = "reload"
    /\ lastOp.file # MainTex
    /\ lastOp.file \in DOMAIN files
    /\ activeFile = MainTex

----------------------------------------------------------------------------
(* Adding a package and removing it again *)

\* C23: when addPackage(p) was the last operation, on a text for which
\* getInstalledPackages did not report p, the removePackage(p) that follows
\* leaves the active file with exactly the text it had before the addPackage
C23_AddRemoveRoundTrip ==
    [][(/\ lastOp.op = "addPackage"
        /\ lastOp.arg \notin Range(InstalledIn(lastOp.content))
        /\ lastOp'.op = "removePackage"
        /\ lastOp'.n = lastOp.n + 1
        /\ lastOp'.arg = lastOp.arg)
       => /\ activeFile' = lastOp.file
          /\ files'[activeFile'] = lastOp.content
          /\ buffer' = lastOp.content]_vars
====
